---- MODULE Spec2Model ----
(***************************************************************************)
(* Model of cuda/cam-arrayfire/af_helpers.cpp: the conversions between an  *)
(* OpenCV host image (cv::Mat, row-major, channels interleaved) and an     *)
(* ArrayFire device array (af::array, column-major, channels planar).      *)
(*                                                                         *)
(* Samples are integers.  A buffer is a function from the offsets          *)
(* 0..n-1 (in elements, as the code's pointers count them) to samples.     *)
(* Element types are the names the code uses: CV_8U, CV_32F, CV_64F,       *)
(* CV_32S for a cv::Mat, f32, f64, b8 for an af::array.                    *)
(***************************************************************************)
EXTENDS Integers, Sequences, FiniteSets

VARIABLES
    src,    \* the value of the caller's host image at the start
    img,    \* the caller's host image
    arr,    \* the caller's device array, the output of mat_to_array
    out,    \* the host image of array_to_mat: the caller's output parameter,
            \* or the local `output` the by-value overload returns
    call    \* what the last call was given and what it did

vars == <<src, img, arr, out, call>>

(***************************************************************************)
(* Bounds of the model.                                                    *)
(***************************************************************************)
MaxPixels == 6      \* images and planes have rows * cols <= MaxPixels
MaxChannels == 4    \* host images have 1..MaxChannels channels

Shapes == {s \in (1..MaxPixels) \X (1..MaxPixels) : s[1] * s[2] <= MaxPixels}

\* Values an uninitialised or mis-typed element may turn out to hold.
Indeterminate == {0, 255}

(***************************************************************************)
(* Buffers, cv::Mat and af::array values.                                  *)
(***************************************************************************)
\* The offsets of a buffer of n elements.
Offsets(n) == 0..(n - 1)

NoData == [i \in Offsets(0) |-> 0]

Dims(d0, d1, d2) == [k \in 0..2 |-> CASE k = 0 -> d0 [] k = 1 -> d1 [] OTHER -> d2]

\* cv::Mat output;  (a default-constructed, empty image)
EmptyMat == [rows |-> 0, cols |-> 0, channels |-> 1, depth |-> "CV_8U", data |-> NoData]

\* array output;  (a default-constructed, empty array)
EmptyArr == [dims |-> Dims(0, 0, 0), type |-> "f32", data |-> NoData]

\* The sample of pixel (row y, column x), channel c of a host image.
At(m, y, x, c) == m.data[(y * m.cols + x) * m.channels + c]

\* The element (i, j, k) of a device array.
Elem(a, i, j, k) == a.data[i + j * a.dims[0] + k * a.dims[0] * a.dims[1]]

\* The value a float32 holds for the integer v (0 <= v < 2^25): exact up to
\* 2^24, above it the nearest even integer, ties to the even mantissa.
ToFloat32(v) ==
    IF v <= 2^24 THEN v
    ELSE IF v % 2 = 0 THEN v
    ELSE IF (v - 1) % 4 = 0 THEN v - 1
    ELSE v + 1

\* The value conversion of cv::Mat::convertTo to the depth `depth`; the code
\* converts to CV_32F only.
saturate_cast(v, depth) == IF depth = "CV_32F" THEN ToFloat32(v) ELSE v

\* input.convertTo(input, type): the depth changes, the channel count stays.
convertTo(m, depth) ==
    [m EXCEPT !.depth = depth,
              !.data = [i \in DOMAIN m.data |-> saturate_cast(m.data[i], depth)]]

\* input.clone(): a deep copy, an object of its own with the same value.
clone(m) == m

\* One channel of an interleaved image as a single-channel image.
channel(m, c) ==
    [rows |-> m.rows, cols |-> m.cols, channels |-> 1, depth |-> m.depth,
     data |-> [i \in Offsets(m.rows * m.cols) |-> m.data[i * m.channels + c]]]

\* A mis-ordered split: the channels come out last first.
split_reversed(m) == [c \in 0..(m.channels - 1) |-> channel(m, m.channels - 1 - c)]

\* split(input, planes): planes[c] is channel c of the image.
split(m) == [c \in 0..(m.channels - 1) |-> channel(m, c)]

\* input.ptr<float>(0): the image's samples from row 0 on.
ptr(m) == m.data

\* A construction with the two dimensions in the other order.
array2_swapped(d0, d1, p) ==
    [dims |-> Dims(d1, d0, 1), type |-> "f32",
     data |-> [i \in Offsets(d0 * d1) |-> p[i]]]

\* array(d0, d1, hostPointer): a d0 x d1 float array filled, in column-major
\* storage order, with the first d0 * d1 elements at the pointer.
array2(d0, d1, p) ==
    [dims |-> Dims(d0, d1, 1), type |-> "f32",
     data |-> [i \in Offsets(d0 * d1) |-> p[i]]]

\* array(d0, d1, d2): a float array whose elements are not initialised; u is
\* what they happen to hold.
array3(d0, d1, d2, u) ==
    [dims |-> Dims(d0, d1, d2), type |-> "f32",
     data |-> [i \in Offsets(d0 * d1 * d2) |-> u]]

\* A transpose that swaps the dimensions and leaves the elements where they are.
T_reshape(a) == [a EXCEPT !.dims = Dims(a.dims[1], a.dims[0], 1)]

\* a.T(): the transpose of a two-dimensional array, T(i, j) = a(j, i).
T(a) ==
    [a EXCEPT !.dims = Dims(a.dims[1], a.dims[0], 1),
              !.data = [o \in Offsets(a.dims[0] * a.dims[1]) |-> a.data[(o \div a.dims[1]) + (o % a.dims[1]) * a.dims[0]]]]

\* output(span, span, k) = x: plane k of the array becomes x.
AssignPlane(a, k, x) ==
    [a EXCEPT !.data = [o \in DOMAIN a.data |->
                           IF o \div (a.dims[0] * a.dims[1]) = k
                           THEN x.data[o % (a.dims[0] * a.dims[1])]
                           ELSE a.data[o]]]

\* a.as(type): the element-wise cast.  b8 is ArrayFire's boolean type: a cast
\* to it yields 1 for every non-zero element and 0 for zero.
as(a, type) ==
    [a EXCEPT !.type = type,
              !.data = [o \in DOMAIN a.data |->
                           CASE type = "b8" -> IF a.data[o] = 0 THEN 0 ELSE 1
                             [] type = "f32" -> ToFloat32(a.data[o])
                             [] OTHER -> a.data[o]]]

\* The cv::Mat depth whose elements are stored as those of an array type are.
StorageOf(type) ==
    CASE type = "f32" -> "CV_32F"
      [] type = "f64" -> "CV_64F"
      [] type = "b8" -> "CV_8U"
      [] OTHER -> "none"

\* Bytes per element.
ElemSize(depth) ==
    CASE depth = "CV_8U" -> 1
      [] depth = "CV_32F" -> 4
      [] depth = "CV_32S" -> 4
      [] depth = "CV_64F" -> 8
      [] OTHER -> 0

\* a.host(data): the bulk copy of the array's storage, in the array's own
\* element type, to the host pointer.  Read through a pointer of another
\* element type the bytes are no defined values: g is what they are read as.
host(a, depth, g) ==
    IF StorageOf(a.type) = depth THEN a.data ELSE [o \in DOMAIN a.data |-> g[o]]

\* An allocation with the two dimensions in the other order.
Mat_swapped(rows, cols, depth, g) ==
    [rows |-> cols, cols |-> rows, channels |-> 1, depth |-> depth,
     data |-> [i \in Offsets(rows * cols) |-> g[i]]]

\* cv::Mat(rows, cols, type): a fresh single-channel image whose samples are
\* not initialised; g is what they happen to hold.
Mat(rows, cols, depth, g) ==
    [rows |-> rows, cols |-> cols, channels |-> 1, depth |-> depth,
     data |-> [i \in Offsets(rows * cols) |-> g[i]]]

(***************************************************************************)
(* The conversions.                                                        *)
(***************************************************************************)

\* mat_to_array_(cv::Mat& input, array& output).  Both parameters are
\* references: the result gives what each holds when the function returns.
mat_to_array_(input, u) ==
    LET w == input.cols
        h == input.rows
        channels == input.channels
    IN  IF channels = 1 THEN
            LET in1 == convertTo(input, "CV_32F")
            IN  [input |-> in1, output |-> T(array2(w, h, ptr(in1)))]
        ELSE IF channels = 3 THEN
            LET in1 == convertTo(input, "CV_32F")
                rgb == split(in1)
                o0 == array3(h, w, 3, u)
                o1 == AssignPlane(o0, 0, T(array2(w, h, ptr(rgb[2]))))
                o2 == AssignPlane(o1, 1, T(array2(w, h, ptr(rgb[1]))))
                o3 == AssignPlane(o2, 2, T(array2(w, h, ptr(rgb[0]))))
            IN  [input |-> in1, output |-> o3]
        ELSE
            LET in1 == convertTo(input, "CV_32F")
                gb == split(in1)
                o0 == array3(h, w, 2, u)
                o1 == AssignPlane(o0, 0, T(array2(w, h, ptr(gb[1]))))
                o2 == AssignPlane(o1, 1, T(array2(w, h, ptr(gb[0]))))
            IN  [input |-> in1, output |-> o2]

\* A conversion that works on the caller's image itself.
mat_to_array_inplace(input, u) ==
    LET r == mat_to_array_(input, u)
    IN  [input |-> r.input, tmp |-> r.input, output |-> r.output]

\* void mat_to_array(const cv::Mat& input, array& output), and the by-value
\* overload, which differs in how the array reaches the caller only:
\* the conversion runs on a clone.  input is the caller's image after the call,
\* tmp the clone after it.
mat_to_array(input, u) ==
    LET tmp == clone(input)
        r == mat_to_array_(tmp, u)
    IN  [input |-> input, tmp |-> r.input, output |-> r.output]

\* MSG(text): the message is printed.
MSG(msgs, text) == Append(msgs, text)

\* The single-plane branch of array_to_mat.
array_to_mat_plane(input, type, g) ==
    LET output == Mat(input.dims[0], input.dims[1], type, g)
    IN  IF type = "CV_32F" THEN
            [output |-> [output EXCEPT !.data = host(T(input), type, g)],
             msgs |-> << >>, written |-> T(input).type]
        ELSE IF type = "CV_64F" THEN
            [output |-> [output EXCEPT !.data = host(as(T(input), "f64"), type, g)],
             msgs |-> << >>, written |-> "f64"]
        ELSE IF type = "CV_8U" THEN
            [output |-> [output EXCEPT !.data = host(as(T(input), "b8"), type, g)],
             msgs |-> << >>, written |-> "b8"]
        ELSE
            [output |-> output,
             msgs |-> MSG(<< >>, "array_to_mat: invalid conversion"),
             written |-> "none"]

\* An array_to_mat that allocates the output before it looks at the planes.
array_to_mat_allocfirst(input, output, type, g) ==
    IF input.dims[2] # 1 THEN
        [output |-> Mat(input.dims[0], input.dims[1], type, g),
         msgs |-> MSG(<< >>, "array_to_mat: input must be 1 channel."),
         written |-> "none"]
    ELSE array_to_mat_plane(input, type, g)

\* void array_to_mat(const array& input, cv::Mat& output, int type): output
\* is the caller's image when the function returns, msgs what it printed,
\* written the element type of the array whose storage host() copied.
array_to_mat(input, output, type, g) ==
    IF input.dims[2] # 1 THEN
        [output |-> output,
         msgs |-> MSG(<< >>, "array_to_mat: input must be 1 channel."),
         written |-> "none"]
    ELSE array_to_mat_plane(input, type, g)

\* How a call of array_to_mat can end.  The function returns nothing and
\* throws nothing: it returns.  Where host() copies elements wider than the
\* destination's it writes past the end of the buffer, and the process may
\* die instead.
Outcomes(input, type) ==
    IF /\ input.dims[2] = 1
       /\ type = "CV_32F"
       /\ ElemSize(StorageOf(input.type)) > ElemSize(type)
    THEN {"returned", "crashed"}
    ELSE {"returned"}

(***************************************************************************)
(* The callers' inputs.                                                    *)
(***************************************************************************)

\* Host images: every shape and channel count within the bounds, as 8-bit,
\* float and double images.  The samples of an image differ from one
\* another, so that a misplaced sample shows; those of the double images
\* are integers no float32 holds exactly.
Sample(depth, i) ==
    CASE depth = "CV_8U" -> i + 1
      [] depth = "CV_32F" -> 10 * (i + 1)
      [] OTHER -> 2^24 + 1 + 4 * i

Image(h, w, c, depth) ==
    [rows |-> h, cols |-> w, channels |-> c, depth |-> depth,
     data |-> [i \in Offsets(h * w * c) |-> Sample(depth, i)]]

Images ==
    {Image(s[1], s[2], c, depth) :
        s \in Shapes, c \in 1..MaxChannels, depth \in {"CV_8U", "CV_32F", "CV_64F"}}

\* Device arrays the caller built by other means than mat_to_array: arrays of
\* doubles and of booleans, of one plane and of two.
CallerArrays ==
    {[dims |-> Dims(s[1], s[2], k), type |-> t,
      data |-> [i \in Offsets(s[1] * s[2] * k) |-> IF t = "b8" THEN (i + 1) % 2 ELSE 2^24 + 3 + 4 * i]] :
        s \in {x \in Shapes : x[1] * x[2] <= 2}, k \in 1..2, t \in {"f64", "b8"}}

\* The images the caller passes as the output parameter: an empty one and
\* one that holds data already.
CallerMats ==
    {EmptyMat,
     [rows |-> 1, cols |-> 2, channels |-> 1, depth |-> "CV_8U",
      data |-> [i \in Offsets(2) |-> 7 + i]]}

\* The element types a caller asks for: the three array_to_mat handles and
\* one it does not.
RequestTypes == {"CV_32F", "CV_64F", "CV_8U", "CV_32S"}

\* The arrays a caller hands to array_to_mat: the one mat_to_array gave it, or
\* one of its own.
InputArrays == (IF arr.dims[2] > 0 THEN {arr} ELSE {}) \cup CallerArrays

\* What the elements of a fresh d0 x d1 buffer may hold.
Garbage(input) == [0..(input.dims[0] * input.dims[1] - 1) -> Indeterminate]

NoCall ==
    [op |-> "none", form |-> "none", inArr |-> EmptyArr, type |-> "none",
     outBefore |-> EmptyMat, tmp |-> EmptyMat, msgs |-> << >>,
     written |-> "none", outcome |-> "none"]

(***************************************************************************)
(* The state machine.  A behaviour is one use of the library: the caller   *)
(* holds a host image, may convert it to a device array (once, by either   *)
(* overload), and may then convert an array, that one or one of its own,   *)
(* to a host image (once, by either overload).                             *)
(***************************************************************************)
Init ==
    /\ src \in Images
    /\ img = src
    /\ arr = EmptyArr
    /\ out = EmptyMat
    /\ call = NoCall

\* mat_to_array(img, arr);
MatToArrayOut ==
    /\ call.op = "none"
    /\ \E u \in Indeterminate :
        LET r == mat_to_array(img, u)
        IN  /\ img' = r.input
            /\ arr' = r.output
            /\ call' = [NoCall EXCEPT !.op = "mat_to_array", !.form = "out",
                                      !.tmp = r.tmp, !.outcome = "returned"]
            /\ UNCHANGED <<src, out>>

\* arr = mat_to_array(img);
MatToArrayRet ==
    /\ call.op = "none"
    /\ \E u \in Indeterminate :
        LET r == mat_to_array(img, u)
        IN  /\ img' = r.input
            /\ arr' = r.output
            /\ call' = [NoCall EXCEPT !.op = "mat_to_array", !.form = "ret",
                                      !.tmp = r.tmp, !.outcome = "returned"]
            /\ UNCHANGED <<src, out>>

\* array_to_mat(input, output, type);
ArrayToMatOut ==
    /\ call.op # "array_to_mat"
    /\ \E input \in InputArrays, output \in CallerMats, type \in RequestTypes :
        \E g \in Garbage(input), oc \in Outcomes(input, type) :
            LET r == array_to_mat(input, output, type, g)
            IN  /\ out' = r.output
                /\ call' = [op |-> "array_to_mat", form |-> "out", inArr |-> input,
                            type |-> type, outBefore |-> output, tmp |-> EmptyMat,
                            msgs |-> r.msgs, written |-> r.written, outcome |-> oc]
                /\ UNCHANGED <<src, img, arr>>

\* out = array_to_mat(input, type);  the local `output` starts empty.
ArrayToMatRet ==
    /\ call.op # "array_to_mat"
    /\ \E input \in InputArrays, type \in RequestTypes :
        \E g \in Garbage(input), oc \in Outcomes(input, type) :
            LET output == EmptyMat
                r == array_to_mat(input, output, type, g)
            IN  /\ out' = r.output
                /\ call' = [op |-> "array_to_mat", form |-> "ret", inArr |-> input,
                            type |-> type, outBefore |-> output, tmp |-> EmptyMat,
                            msgs |-> r.msgs, written |-> r.written, outcome |-> oc]
                /\ UNCHANGED <<src, img, arr>>

Next ==
    \/ MatToArrayOut
    \/ MatToArrayRet
    \/ ArrayToMatOut
    \/ ArrayToMatRet

Spec == Init /\ [][Next]_vars

(***************************************************************************)
(* The claims.                                                             *)
(***************************************************************************)
Pixels(m) == (0..(m.rows - 1)) \X (0..(m.cols - 1))

\* mat_to_array has converted the caller's image.
Converted == arr.dims[2] > 0

\* array_to_mat has been called on the array mat_to_array produced.
RoundTrip == call.op = "array_to_mat" /\ Converted /\ call.inArr = arr

\* C1: for a 1-channel float32 host image of any shape H x W, converting it to
\* the device and back with element type float32 gives a host image of H rows
\* and W columns in which every pixel holds the value it held in the original.
C1_RoundTripFloat32 ==
    (/\ RoundTrip
     /\ src.channels = 1
     /\ src.depth = "CV_32F"
     /\ call.type = "CV_32F")
    => /\ out.rows = src.rows
       /\ out.cols = src.cols
       /\ out.channels = 1
       /\ out.depth = "CV_32F"
       /\ \A q \in Pixels(src) : At(out, q[1], q[2], 0) = At(src, q[1], q[2], 0)
       /\ call.msgs = << >>
       /\ call.outcome = "returned"

\* A float32 image of 2 rows and 3 columns has made the round trip.
C1_Witness ==
    /\ RoundTrip
    /\ src.channels = 1
    /\ src.depth = "CV_32F"
    /\ call.type = "CV_32F"
    /\ src.rows = 2
    /\ src.cols = 3
    /\ At(src, 1, 0, 0) = 40
    /\ At(out, 1, 0, 0) = 40
    /\ Elem(arr, 1, 0, 0) = 40

\* The sample of host channel c at (row y, column x) as plane p of the device
\* array holds it, exactly or as a float32.
PlaneHolds(p, c, exact) ==
    \A q \in Pixels(src) :
        arr.data[p * src.rows * src.cols + q[2] * src.rows + q[1]]
            = IF exact THEN At(src, q[1], q[2], c)
              ELSE ToFloat32(At(src, q[1], q[2], c))

\* C2 as stated: for a host image of C = 2 or 3 channels the device array has
\* exactly C planes, and storage offset x*H + y of plane p holds the sample of
\* host pixel (row y, column x), channel C-1-p.
C2_PlanesHoldSamples ==
    (Converted /\ src.channels \in {2, 3})
    => /\ arr.dims[2] = src.channels
       /\ Cardinality(DOMAIN arr.data) = src.rows * src.cols * src.channels
       /\ \A p \in 0..(src.channels - 1) : PlaneHolds(p, src.channels - 1 - p, TRUE)

\* C2, amended: for a host image of C = 2 or 3 channels the device array has
\* exactly C planes, and storage offset x*H + y of plane p holds the sample of
\* host pixel (row y, column x), channel C-1-p, converted to float32.
C2_PlanesHoldFloat32Samples ==
    (Converted /\ src.channels \in {2, 3})
    => /\ arr.dims[2] = src.channels
       /\ arr.type = "f32"
       /\ Cardinality(DOMAIN arr.data) = src.rows * src.cols * src.channels
       /\ \A p \in 0..(src.channels - 1) : PlaneHolds(p, src.channels - 1 - p, FALSE)

\* The 1 x 1 pixel (10, 20, 30) has become the planes 30, 20, 10.
C2_Witness ==
    /\ call.op = "mat_to_array"
    /\ src = Image(1, 1, 3, "CV_32F")
    /\ At(src, 0, 0, 0) = 10 /\ At(src, 0, 0, 1) = 20 /\ At(src, 0, 0, 2) = 30
    /\ Elem(arr, 0, 0, 0) = 30 /\ Elem(arr, 0, 0, 1) = 20 /\ Elem(arr, 0, 0, 2) = 10

Supported == {"CV_32F", "CV_64F", "CV_8U"}

\* array_to_mat has been called on an array of one plane.
OnePlaneCall == call.op = "array_to_mat" /\ call.inArr.dims[2] = 1

\* C3 as stated: for a single-plane device array whose elements are integers
\* in 0..255, array_to_mat with element type uint8 gives a host image that
\* holds exactly those values at the same (row, column) positions.
C3_Uint8Exact ==
    (/\ OnePlaneCall
     /\ call.type = "CV_8U"
     /\ call.outcome = "returned"
     /\ \A o \in DOMAIN call.inArr.data : call.inArr.data[o] \in 0..255)
    => /\ out.rows = call.inArr.dims[0]
       /\ out.cols = call.inArr.dims[1]
       /\ out.depth = "CV_8U"
       /\ \A q \in Pixels(out) : At(out, q[1], q[2], 0) = Elem(call.inArr, q[1], q[2], 0)

\* C4 as stated: a call of array_to_mat that meets an error condition (more
\* than one plane, or an element type outside float32, float64, uint8) ends
\* in another way than a successful call does, which returns.
C4_ErrorsAreSignalled ==
    (/\ call.op = "array_to_mat"
     /\ \/ call.inArr.dims[2] > 1
        \/ call.type \notin Supported)
    => call.outcome # "returned"

\* C5: when array_to_mat is called with an array of 2 or 3 planes, the
\* output image is after the call what it was before it: shape, element type
\* and contents.
C5_MultiPlaneLeavesOutput ==
    (call.op = "array_to_mat" /\ call.inArr.dims[2] \in {2, 3})
    => /\ out = call.outBefore
       /\ call.written = "none"

\* A 3-plane array was refused and the caller's populated image is as it was.
C5_Witness ==
    /\ call.op = "array_to_mat"
    /\ call.form = "out"
    /\ call.inArr.dims[2] = 3
    /\ call.inArr.dims[0] = 2
    /\ call.outBefore.rows = 1
    /\ call.outBefore.data[0] = 7
    /\ out.data[0] = 7
    /\ Len(call.msgs) = 1

\* C6 as stated: when array_to_mat is called with a single-plane array and an
\* element type outside float32, float64, uint8, the output image is after
\* the call what it was before it.
C6_BadTypeLeavesOutput ==
    (OnePlaneCall /\ call.type \notin Supported)
    => out = call.outBefore

\* C7: mat_to_array does not change the caller's host image: after the call
\* it has the element type, shape and samples it had before.
C7_HostImageNotMutated ==
    Converted
    => /\ img.depth = src.depth
       /\ img.rows = src.rows /\ img.cols = src.cols /\ img.channels = src.channels
       /\ img.data = src.data

\* An image of doubles was converted: the clone was widened to float32 and its
\* samples rounded, the caller's image still holds the doubles.
C7_Witness ==
    /\ call.op = "mat_to_array"
    /\ src.depth = "CV_64F"
    /\ call.tmp.depth = "CV_32F"
    /\ call.tmp.data # src.data
    /\ img.depth = "CV_64F"
    /\ img.data = src.data

\* C8 as stated: the device array of a host image of width W, height H and
\* C channels (C in 1..3) has dims[0] = W, dims[1] = H, dims[2] = C.
C8_DimsWidthHeight ==
    (Converted /\ src.channels \in 1..3)
    => arr.dims = Dims(src.cols, src.rows, src.channels)

\* C8, amended: the device array of a host image of width W, height H and
\* C channels (C in 1..3) has dims[0] = H, dims[1] = W, dims[2] = C.
C8_DimsHeightWidth ==
    (Converted /\ src.channels \in 1..3)
    => arr.dims = Dims(src.rows, src.cols, src.channels)

\* A single-channel image of 2 rows and 3 columns was converted.
C8_Witness ==
    /\ Converted
    /\ src.rows = 2
    /\ src.cols = 3
    /\ src.channels = 1
    /\ arr.dims[0] = 2
    /\ arr.dims[1] = 3
    /\ arr.dims[2] = 1

\* C9: for a host image whose channel count is neither 1 nor 3, mat_to_array
\* reports nothing and gives a device array of exactly 2 planes, plane 0
\* taken from host channel 1 and plane 1 from host channel 0; no sample of a
\* further channel is in the array.
C9_OtherCountsTakeTwoChannelPath ==
    (Converted /\ src.channels \notin {1, 3})
    => /\ arr.dims = Dims(src.rows, src.cols, 2)
       /\ Cardinality(DOMAIN arr.data) = 2 * src.rows * src.cols
       /\ PlaneHolds(0, 1, FALSE)
       /\ PlaneHolds(1, 0, FALSE)
       /\ \A o \in DOMAIN arr.data, q \in Pixels(src), c \in 2..(src.channels - 1) :
              arr.data[o] # ToFloat32(At(src, q[1], q[2], c))
       /\ call.op = "mat_to_array" => call.msgs = << >> /\ call.outcome = "returned"

\* A 4-channel image was converted to 2 planes.
C9_Witness ==
    /\ call.op = "mat_to_array"
    /\ src.channels = 4
    /\ src.rows = 1
    /\ src.cols = 1
    /\ src.depth = "CV_8U"
    /\ arr.dims[2] = 2
    /\ Elem(arr, 0, 0, 0) = 2
    /\ Elem(arr, 0, 0, 1) = 1

\* C10 as stated: for a single-plane array and a requested type among float32,
\* float64, uint8 that differs from the array's own, array_to_mat casts the
\* elements before the copy: what host() copies has the requested type.
C10_CastToRequestedType ==
    (/\ OnePlaneCall
     /\ call.type \in Supported
     /\ StorageOf(call.inArr.type) # call.type)
    => StorageOf(call.written) = call.type

====
